---- MODULE Spec2Model ----
(***************************************************************************)
(* go-observability: the Edge Validator (service-a) and the Orchestrator   *)
(* (service-b) as one state machine.                                       *)
(*                                                                         *)
(* Strings the code inspects byte by byte (the postal code) are sequences  *)
(* of byte values.  Temperatures are integers in hundredths of a degree.   *)
(* HTTP bodies are sequences of JSON tokens.                               *)
(***************************************************************************)
EXTENDS Integers, Sequences, FiniteSets, TLC

VARIABLES
    cep,      \* validator harness: the candidate string handed to validateCEP
    resA,     \* validator harness: result of service-a's validateCEP ("none" before the call)
    resB,     \* validator harness: result of service-b's validateCEP ("none" before the call)
    env,      \* process environment: WEATHER_API_KEY and SERVICE_B_URL
    a,        \* per request: the Edge Validator's handleCEP
    b,        \* per request: the Orchestrator's handleWeather
    spans,    \* every span started by the two tracers
    calls,    \* per request and target: trace ids injected into each outbound attempt
    trail,    \* per request and service: the handler's span and response steps, in order
    proc      \* per service: its process, from main's first line to its exit

vars == <<cep, resA, resB, env, a, b, spans, calls, trail, proc>>

(***************************************************************************)
(* Bounds                                                                  *)
(***************************************************************************)
\* longest candidate string handed to the validator harness
MaxLen == 9
\* number of logical requests (each may be in flight concurrently)
NumRequests == 2

(***************************************************************************)
(* validateCEP                                                             *)
(***************************************************************************)
\* the length validateCEP demands
CEPLen == 8

\* bytes of the ASCII digits '0' and '9'
Byte0 == 48
Byte9 == 57

\* mutant: the class also admits ':' (the byte after '9')
IsDigitOffByOne(c) == c >= Byte0 /\ c <= Byte9 + 1

\* RE2 \d : the ASCII class [0-9], never a Unicode digit
IsDigit(c) == c >= Byte0 /\ c <= Byte9

\* `^\d{n}$` from position i of s: n digits, then the end of the text.  Without
\* the m flag Go's $ matches only at the very end, not before a final newline.
RECURSIVE MatchDigitsToEnd(_, _, _)
MatchDigitsToEnd(s, i, n) ==
    IF n = 0 THEN i = Len(s) + 1
    ELSE /\ i <= Len(s)
         /\ IsDigit(s[i])
         /\ MatchDigitsToEnd(s, i + 1, n - 1)

\* regexp.MatchString(`^\d{8}$`, s)
MatchString(s) == MatchDigitsToEnd(s, 1, CEPLen)

\* mutant: the length test alone, the regular expression forgotten
validateCEPLengthOnly(s) == Len(s) = CEPLen

\* service-a
validateCEP(s) ==
    IF Len(s) # CEPLen THEN FALSE ELSE MatchString(s)

\* service-b's copy
validateCEP_B(s) ==
    IF Len(s) # CEPLen THEN FALSE ELSE MatchString(s)

(***************************************************************************)
(* Request bodies and gin's ShouldBindJSON                                 *)
(***************************************************************************)
\* A request body as the binder sees it: whether it is well-formed JSON, and
\* what the object holds under "cep" (nothing, null, a number, or a string).
Body(wellformed, field, str) ==
    [wellformed |-> wellformed, field |-> field, str |-> str]

\* "01310100"
CepSaoPaulo == <<48, 49, 51, 49, 48, 49, 48, 48>>

\* bodies a caller may send: malformed, {}, {"cep": 1310100}, {"cep": ""},
\* {"cep": "abcd1234"}, {"cep": "01310100"}
Bodies ==
    { Body(FALSE, "absent", <<>>),
      Body(TRUE, "absent", <<>>),
      Body(TRUE, "number", <<>>),
      Body(TRUE, "string", <<>>),
      Body(TRUE, "string", <<97, 98, 99, 100, 49, 50, 51, 52>>),
      Body(TRUE, "string", CepSaoPaulo) }

\* c.ShouldBindJSON(&req) into CEPRequest{CEP string `json:"cep" binding:"required"`}:
\* a syntax error or a non-string cep fails the decode; an absent or null cep
\* leaves the zero value, which `required` rejects like the empty string.
ShouldBindJSON(body) ==
    LET decoded == IF body.field = "string" THEN body.str ELSE <<>>
    IN  IF ~body.wellformed \/ body.field = "number" \/ decoded = <<>>
        THEN [err |-> TRUE, CEP |-> <<>>]
        ELSE [err |-> FALSE, CEP |-> decoded]

\* json.Marshal(CEPRequest{CEP: cep})
MarshalCEPRequest(c) == Body(TRUE, "string", c)

(***************************************************************************)
(* Response bodies: JSON text as a sequence of tokens                      *)
(***************************************************************************)
\* punctuation and insignificant whitespace: "{" "}" ":" "," "ws"; "raw" is
\* text that is no JSON token at all
P(t) == [t |-> t, s |-> "", n |-> 0, pad |-> FALSE]
\* a string literal
S(s) == [t |-> "str", s |-> s, n |-> 0, pad |-> FALSE]
\* a number literal in its shortest form (n in hundredths)
N(n) == [t |-> "num", s |-> "", n |-> n, pad |-> FALSE]
\* the same number written with a redundant trailing zero, as in 22.50
NPad(n) == [t |-> "num", s |-> "", n |-> n, pad |-> TRUE]

\* every object key of the model, in the bytewise order encoding/json sorts
\* map keys into
KeyOrder == <<"city", "message", "temp_C", "temp_F", "temp_K">>

StripWS(text) == SelectSeq(text, LAMBDA k : k.t # "ws")

\* a flat JSON object: { "k" : v , "k" : v ... }
IsObjectText(t) ==
    /\ Len(t) >= 2
    /\ t[1].t = "{"
    /\ t[Len(t)].t = "}"
    /\ \/ Len(t) = 2
       \/ /\ (Len(t) - 1) % 4 = 0
          /\ \A i \in 2..(Len(t) - 1) :
                CASE (i - 1) % 4 = 1 -> t[i].t = "str"
                  [] (i - 1) % 4 = 2 -> t[i].t = ":"
                  [] (i - 1) % 4 = 3 -> t[i].t \in {"str", "num"}
                  [] OTHER -> t[i].t = ","

\* json.NewDecoder(body).Decode(&v) into interface{}: a map from key to value
\* (numbers become float64, so the literal's spelling is lost; of a repeated
\* key the last member wins)
Decode(text) ==
    LET t == StripWS(text)
    IN  IF ~IsObjectText(t) THEN [err |-> TRUE, v |-> <<>>]
        ELSE LET at == {i \in 2..(Len(t) - 1) : (i - 1) % 4 = 1}
                 keys == {t[i].s : i \in at}
                 last(k) == CHOOSE i \in at :
                                /\ t[i].s = k
                                /\ \A j \in at : t[j].s = k => j <= i
             IN  [err |-> FALSE,
                  v |-> [k \in keys |-> [t[last(k) + 2] EXCEPT !.pad = FALSE]]]

RECURSIVE EncodeMembers(_, _, _)
EncodeMembers(order, v, first) ==
    IF order = <<>> THEN <<>>
    ELSE LET k == Head(order)
         IN  IF k \in DOMAIN v
             THEN (IF first THEN <<>> ELSE <<P(",")>>)
                  \o <<S(k), P(":"), v[k]>>
                  \o EncodeMembers(Tail(order), v, FALSE)
             ELSE EncodeMembers(Tail(order), v, first)

\* c.JSON on a decoded map: no whitespace, keys sorted
EncodeMap(v) == <<P("{")>> \o EncodeMembers(KeyOrder, v, TRUE) \o <<P("}")>>

\* c.JSON on a struct: no whitespace, fields in declaration order
EncodeStruct(fields, v) == <<P("{")>> \o EncodeMembers(fields, v, TRUE) \o <<P("}")>>

\* ErrorResponse{Message: m}
ErrorResponse(m) == EncodeStruct(<<"message">>, [k \in {"message"} |-> S(m)])

(***************************************************************************)
(* Trace context, spans, outbound calls                                    *)
(***************************************************************************)
Requests == 1..NumRequests

\* no traceparent header
NoTrace == [src |-> "none", n |-> 0]
\* trace ids a caller may send in its traceparent header
CallerTraces == {[src |-> "caller", n |-> 1]}
\* the id the SDK draws for a new root span of request r in service svc
NewTraceID(svc, r) == [src |-> svc, n |-> r]

\* otelgin.Middleware with the TraceContext propagator: continue the trace of
\* the inbound traceparent, or start a new one
Extract(svc, r, tp) == IF tp = NoTrace THEN NewTraceID(svc, r) ELSE tp

\* mutant: the outbound request is built without the handler's context
InjectBackground(trace) == NoTrace

\* otelhttp.NewTransport: the traceparent written into the outbound request is
\* the trace of the context the request was built with
Inject(trace) == trace

SpanNames == {"handle-cep-request", "forward-to-service-b",
              "handle-weather-request", "fetch-cep-info", "fetch-weather-info"}

NoSpan == [started |-> 0, ended |-> 0, errors |-> 0, trace |-> NoTrace]

\* tracer.Start(ctx, name) with ctx carrying `trace`
StartSpan(sp, name, trace) ==
    [sp EXCEPT ![name] = [@ EXCEPT !.started = @ + 1, !.trace = trace]]
\* mutant: the span is never ended (a missing defer span.End())
EndSpanNever(sp, name) == sp

\* span.End()
EndSpan(sp, name) == [sp EXCEPT ![name].ended = @ + 1]
\* span.RecordError(err)
RecordError(sp, name) == [sp EXCEPT ![name].errors = @ + 1]

\* the two service processes
Services == {"service-a", "service-b"}

\* one step of a handler as the trail of a request records it: a span is
\* started ("start"), an error is recorded on it ("error"), it is ended
\* ("end"), or c.JSON writes the handler's answer ("respond", filed under the
\* handler's own span)
Ev(e, name) == [e |-> e, span |-> name]

\* the handler of service svc runs the steps evs, in this order, for request r
Log(r, svc, evs) == [trail EXCEPT ![r][svc] = @ \o evs]

Targets == {"service-b", "viacep", "weatherapi"}

\* mutant: a failed attempt is repeated once
DoRetrying(cl, to, tp) == [cl EXCEPT ![to] = Append(Append(@, tp), tp)]

\* client.Do(req): one more attempt towards `to`, carrying traceparent tp
Do(cl, to, tp) == [cl EXCEPT ![to] = Append(@, tp)]

(***************************************************************************)
(* Environment                                                             *)
(***************************************************************************)
\* WEATHER_API_KEY: unset or empty, the placeholder, a real key
ApiKeys == {"", "demo_key", "k3y"}
\* SERVICE_B_URL: unset (the Orchestrator at http://service-b:8081) or the
\* address of some other HTTP server (a gateway in front of it)
ServiceBURLs == {"", "http://gateway"}

\* what the postal-lookup collaborator may do
LookupOutcomes ==
    { [kind |-> "transport", erro |-> FALSE, localidade |-> ""],
      [kind |-> "undecodable", erro |-> FALSE, localidade |-> ""],
      [kind |-> "decoded", erro |-> TRUE, localidade |-> ""],
      [kind |-> "decoded", erro |-> FALSE, localidade |-> "Sao Paulo"],
      [kind |-> "decoded", erro |-> FALSE, localidade |-> ""] }
NoLookup == [kind |-> "none", erro |-> FALSE, localidade |-> ""]

\* what the weather collaborator may do (temp_c in hundredths of a degree)
WeatherOutcomes ==
    { [kind |-> "transport", status |-> 0, decodable |-> FALSE, temp_c |-> 0],
      [kind |-> "response", status |-> 401, decodable |-> TRUE, temp_c |-> 0],
      [kind |-> "response", status |-> 200, decodable |-> FALSE, temp_c |-> 0],
      [kind |-> "response", status |-> 200, decodable |-> TRUE, temp_c |-> -550] }
NoWeather == [kind |-> "none", status |-> 0, decodable |-> FALSE, temp_c |-> 0]

\* what a server other than the Orchestrator may answer the forwarding call
GatewayResponses ==
    { [status |-> 502, body |-> <<P("raw")>>],
      [status |-> 500, body |-> <<>>],
      [status |-> 200, body |-> <<P("{"), P("ws"), S("message"), P(":"), P("ws"),
                                  S("ok"), P("ws"), P("}")>>],
      [status |-> 200, body |-> <<P("{"), S("temp_C"), P(":"), NPad(2250), P(","),
                                  S("city"), P(":"), S("Sao Paulo"), P("}")>>] }
NoResponse == [status |-> 0, body |-> <<>>]

(***************************************************************************)
(* Orchestrator helpers                                                    *)
(***************************************************************************)
\* mockTemp := 22.5
MockTemp == 2250

\* mutant: only the empty key counts as no credential
NoCredentialEmptyOnly(apiKey) == apiKey = ""

\* apiKey == "" || apiKey == "demo_key"
NoCredential(apiKey) == apiKey = "" \/ apiKey = "demo_key"

\* mutant: the physical offset 273.15
celsiusToKelvinExact(celsius) == celsius + 27315

\* celsius*1.8 + 32
celsiusToFahrenheit(celsius) == (celsius * 18) \div 10 + 3200

\* celsius + 273
celsiusToKelvin(celsius) == celsius + 27300

\* mutant: a lookup that reports "erro" is treated as found
fetchCEPInfoIgnoresErro(o) ==
    [err |-> o.kind # "decoded", recorded |-> o.kind # "decoded",
     Localidade |-> o.localidade]

\* fetchCEPInfo once httpClient.Do has resolved to o: the error it returns,
\* whether it recorded the error on its own span, and cepResp.Localidade
fetchCEPInfo(o) ==
    [err |-> o.kind # "decoded" \/ o.erro,
     recorded |-> o.kind # "decoded",
     Localidade |-> o.localidade]

\* mutant: the status of the weather response is not looked at
fetchWeatherInfoAnyStatus(o) ==
    [err |-> o.kind = "transport" \/ ~o.decodable,
     recorded |-> o.kind = "transport" \/ ~o.decodable,
     TempC |-> o.temp_c]

\* fetchWeatherInfo once httpClient.Do has resolved to o
fetchWeatherInfo(o) ==
    [err |-> o.kind = "transport" \/ o.status # 200 \/ ~o.decodable,
     recorded |-> o.kind = "transport" \/ (o.status = 200 /\ ~o.decodable),
     TempC |-> o.temp_c]

\* c.JSON(http.StatusOK, WeatherResponse{City, TempC, TempF, TempK})
WeatherResponse(city, tempC) ==
    EncodeStruct(<<"city", "temp_C", "temp_F", "temp_K">>,
                 [k \in {"city", "temp_C", "temp_F", "temp_K"} |->
                    CASE k = "city" -> S(city)
                      [] k = "temp_C" -> N(tempC)
                      [] k = "temp_F" -> N(celsiusToFahrenheit(tempC))
                      [] OTHER -> N(celsiusToKelvin(tempC))])

(***************************************************************************)
(* Initial state                                                           *)
(***************************************************************************)
\* a process at the first line of main: no tracer yet, nothing deferred
Started == [pc |-> "start", inits |-> 0, deferred |-> <<>>, teardowns |-> 0]

\* main up to r.Run: initTracer has returned the shutdown closure, main has
\* deferred it, and the server is listening
Serving == [pc |-> "serving", inits |-> 1, deferred |-> <<"shutdown">>,
            teardowns |-> 0]

\* log.Fatal: the message is logged and os.Exit(1) ends the process at once;
\* the deferred calls of main are not run
Fatal(p) == [p EXCEPT !.pc = "exited"]

IdleA == [pc |-> "idle", body |-> Body(FALSE, "absent", <<>>), tp |-> NoTrace,
          trace |-> NoTrace, fwdErr |-> FALSE, up |-> NoResponse,
          status |-> 0, out |-> <<>>]

IdleB == [pc |-> "idle", origin |-> "none", body |-> Body(FALSE, "absent", <<>>),
          tp |-> NoTrace, trace |-> NoTrace, lookup |-> NoLookup,
          weather |-> NoWeather, status |-> 0, out |-> <<>>]

InitPipeline ==
    /\ a = [r \in Requests |-> IdleA]
    /\ b = [r \in Requests |-> IdleB]
    /\ spans = [r \in Requests |-> [n \in SpanNames |-> NoSpan]]
    /\ calls = [r \in Requests |-> [t \in Targets |-> <<>>]]
    /\ trail = [r \in Requests |-> [svc \in Services |-> <<>>]]

\* both processes are up and serving
InitServing == proc = [svc \in Services |-> Serving]

Init ==
    /\ cep = <<>>
    /\ resA = <<>>
    /\ resB = <<>>
    /\ env \in [WEATHER_API_KEY : ApiKeys, SERVICE_B_URL : ServiceBURLs]
    /\ InitPipeline
    /\ InitServing

(***************************************************************************)
(* Edge Validator: handleCEP                                               *)
(***************************************************************************)
\* handleCEP from its entry to the forwarding call: request r arrives with
\* `body` and traceparent `tp`
HandleCEP(r, body, tp) ==
    /\ proc["service-a"].pc = "serving"
    /\ a[r].pc = "idle"
    /\ b[r].pc = "idle"
    /\ LET trace == Extract("service-a", r, tp)
           sp == StartSpan(spans[r], "handle-cep-request", trace)
           req == ShouldBindJSON(body)
           got == [a[r] EXCEPT !.body = body, !.tp = tp, !.trace = trace]
       IN  IF req.err
           THEN /\ a' = [a EXCEPT ![r] = [got EXCEPT
                            !.pc = "done", !.status = 422,
                            !.out = ErrorResponse("invalid zipcode")]]
                /\ spans' = [spans EXCEPT ![r] =
                            EndSpan(RecordError(sp, "handle-cep-request"),
                                    "handle-cep-request")]
                /\ trail' = Log(r, "service-a",
                                <<Ev("start", "handle-cep-request"),
                                  Ev("error", "handle-cep-request"),
                                  Ev("respond", "handle-cep-request"),
                                  Ev("end", "handle-cep-request")>>)
                /\ UNCHANGED calls
           ELSE IF ~validateCEP(req.CEP)
           THEN /\ a' = [a EXCEPT ![r] = [got EXCEPT
                            !.pc = "done", !.status = 422,
                            !.out = ErrorResponse("invalid zipcode")]]
                /\ spans' = [spans EXCEPT ![r] = EndSpan(sp, "handle-cep-request")]
                /\ trail' = Log(r, "service-a",
                                <<Ev("start", "handle-cep-request"),
                                  Ev("respond", "handle-cep-request"),
                                  Ev("end", "handle-cep-request")>>)
                /\ UNCHANGED calls
           ELSE /\ a' = [a EXCEPT ![r] = [got EXCEPT !.pc = "forwarding"]]
                /\ spans' = [spans EXCEPT ![r] =
                            StartSpan(sp, "forward-to-service-b", trace)]
                /\ trail' = Log(r, "service-a",
                                <<Ev("start", "handle-cep-request"),
                                  Ev("start", "forward-to-service-b")>>)
                /\ calls' = [calls EXCEPT ![r] = Do(@, "service-b", Inject(trace))]
    /\ UNCHANGED <<cep, resA, resB, env, b, proc>>

\* the request forwardToServiceB has in flight for r
Forwarded(r) ==
    [body |-> MarshalCEPRequest(ShouldBindJSON(a[r].body).CEP),
     tp |-> calls[r]["service-b"][Len(calls[r]["service-b"])]]

\* client.Do fails (connection error, timeout) before the peer has answered:
\* err != nil
ForwardFails(r) ==
    /\ proc["service-a"].pc = "serving"
    /\ a[r].pc = "forwarding"
    /\ b[r].pc # "done"
    /\ a' = [a EXCEPT ![r] = [@ EXCEPT
                !.pc = "done", !.fwdErr = TRUE, !.status = 500,
                !.out = ErrorResponse("internal server error")]]
    /\ spans' = [spans EXCEPT ![r] =
                EndSpan(RecordError(EndSpan(@, "forward-to-service-b"),
                                    "handle-cep-request"),
                        "handle-cep-request")]
    /\ trail' = Log(r, "service-a",
                    <<Ev("end", "forward-to-service-b"),
                      Ev("error", "handle-cep-request"),
                      Ev("respond", "handle-cep-request"),
                      Ev("end", "handle-cep-request")>>)
    /\ UNCHANGED <<cep, resA, resB, env, b, calls, proc>>

\* mutant: the upstream status is replaced by 200
relayResponseAlways200(resp) ==
    LET d == Decode(resp.body)
    IN  IF d.err
        THEN [status |-> 500, body |-> ErrorResponse("internal server error")]
        ELSE [status |-> 200, body |-> EncodeMap(d.v)]

\* handleCEP after a response arrived: decode the body into interface{} and
\* write c.JSON(resp.StatusCode, responseBody), or 500 when it does not decode
relayResponse(resp) ==
    LET d == Decode(resp.body)
    IN  IF d.err
        THEN [status |-> 500, body |-> ErrorResponse("internal server error")]
        ELSE [status |-> resp.status, body |-> EncodeMap(d.v)]

\* client.Do returns a response, and handleCEP runs to its end
ForwardReturns(r) ==
    /\ proc["service-a"].pc = "serving"
    /\ a[r].pc = "forwarding"
    /\ \E resp \in IF env.SERVICE_B_URL = ""
                   THEN {[status |-> b[r].status, body |-> b[r].out] : x \in
                            {y \in {r} : b[y].pc = "done"}}
                   ELSE GatewayResponses :
          LET relayed == relayResponse(resp)
              sp == EndSpan(spans[r], "forward-to-service-b")
          IN  /\ a' = [a EXCEPT ![r] = [@ EXCEPT
                          !.pc = "done", !.up = resp,
                          !.status = relayed.status, !.out = relayed.body]]
              /\ spans' = [spans EXCEPT ![r] =
                          EndSpan(IF Decode(resp.body).err
                                  THEN RecordError(sp, "handle-cep-request")
                                  ELSE sp,
                                  "handle-cep-request")]
              /\ trail' = Log(r, "service-a",
                              <<Ev("end", "forward-to-service-b")>> \o
                              (IF Decode(resp.body).err
                               THEN <<Ev("error", "handle-cep-request")>>
                               ELSE <<>>) \o
                              <<Ev("respond", "handle-cep-request"),
                                Ev("end", "handle-cep-request")>>)
    /\ UNCHANGED <<cep, resA, resB, env, b, calls, proc>>

(***************************************************************************)
(* Orchestrator: handleWeather                                             *)
(***************************************************************************)
\* the answer handleWeather writes, and the end of its span
Respond(r, sp, status, out, fields) ==
    /\ b' = [b EXCEPT ![r] = [fields EXCEPT
                !.pc = "done", !.status = status, !.out = out]]
    /\ spans' = [spans EXCEPT ![r] = EndSpan(sp, "handle-weather-request")]

\* handleWeather from line 351 on: convert and answer 200
RespondWeather(r, sp, city, tempC, fields) ==
    Respond(r, sp, 200, WeatherResponse(city, tempC), fields)

\* handleWeather from its entry to the postal-lookup call
handleWeatherEntry(r, origin, body, tp) ==
    LET trace == Extract("service-b", r, tp)
        sp == StartSpan(spans[r], "handle-weather-request", trace)
        req == ShouldBindJSON(body)
        got == [b[r] EXCEPT !.origin = origin, !.body = body, !.tp = tp,
                            !.trace = trace]
    IN  IF req.err
        THEN /\ Respond(r, RecordError(sp, "handle-weather-request"), 422,
                        ErrorResponse("invalid zipcode"), got)
             /\ trail' = Log(r, "service-b",
                             <<Ev("start", "handle-weather-request"),
                               Ev("error", "handle-weather-request"),
                               Ev("respond", "handle-weather-request"),
                               Ev("end", "handle-weather-request")>>)
             /\ UNCHANGED calls
        ELSE IF ~validateCEP_B(req.CEP)
        THEN /\ Respond(r, sp, 422, ErrorResponse("invalid zipcode"), got)
             /\ trail' = Log(r, "service-b",
                             <<Ev("start", "handle-weather-request"),
                               Ev("respond", "handle-weather-request"),
                               Ev("end", "handle-weather-request")>>)
             /\ UNCHANGED calls
        ELSE /\ b' = [b EXCEPT ![r] = [got EXCEPT !.pc = "lookup"]]
             /\ spans' = [spans EXCEPT ![r] = StartSpan(sp, "fetch-cep-info", trace)]
             /\ trail' = Log(r, "service-b",
                             <<Ev("start", "handle-weather-request"),
                               Ev("start", "fetch-cep-info")>>)
             /\ calls' = [calls EXCEPT ![r] = Do(@, "viacep", Inject(trace))]

\* the Orchestrator receives the request the Edge Validator forwarded
HandleWeatherForwarded(r) ==
    /\ proc["service-b"].pc = "serving"
    /\ a[r].pc = "forwarding"
    /\ env.SERVICE_B_URL = ""
    /\ b[r].pc = "idle"
    /\ handleWeatherEntry(r, "edge", Forwarded(r).body, Forwarded(r).tp)
    /\ UNCHANGED <<cep, resA, resB, env, a, proc>>

\* a caller posts to the Orchestrator's /weather directly
HandleWeatherDirect(r, body, tp) ==
    /\ proc["service-b"].pc = "serving"
    /\ a[r].pc = "idle"
    /\ b[r].pc = "idle"
    /\ handleWeatherEntry(r, "direct", body, tp)
    /\ UNCHANGED <<cep, resA, resB, env, a, proc>>

\* the postal-lookup call resolves to o: the rest of fetchCEPInfo, then
\* handleWeather up to the weather call (or to its answer)
LookupReturns(r, o) ==
    /\ proc["service-b"].pc = "serving"
    /\ b[r].pc = "lookup"
    /\ LET cepInfo == fetchCEPInfo(o)
           trace == b[r].trace
           sp1 == EndSpan(IF cepInfo.recorded
                          THEN RecordError(spans[r], "fetch-cep-info")
                          ELSE spans[r],
                          "fetch-cep-info")
           got == [b[r] EXCEPT !.lookup = o]
           ev1 == (IF cepInfo.recorded
                   THEN <<Ev("error", "fetch-cep-info")>>
                   ELSE <<>>) \o <<Ev("end", "fetch-cep-info")>>
       IN  IF cepInfo.err
           THEN /\ Respond(r, RecordError(sp1, "handle-weather-request"), 404,
                           ErrorResponse("can not find zipcode"), got)
                /\ trail' = Log(r, "service-b", ev1 \o
                                <<Ev("error", "handle-weather-request"),
                                  Ev("respond", "handle-weather-request"),
                                  Ev("end", "handle-weather-request")>>)
                /\ UNCHANGED calls
           ELSE LET sp2 == StartSpan(sp1, "fetch-weather-info", trace)
                IN  IF NoCredential(env.WEATHER_API_KEY)
                    THEN /\ RespondWeather(r, EndSpan(sp2, "fetch-weather-info"),
                                           cepInfo.Localidade, MockTemp, got)
                         /\ trail' = Log(r, "service-b", ev1 \o
                                         <<Ev("start", "fetch-weather-info"),
                                           Ev("end", "fetch-weather-info"),
                                           Ev("respond", "handle-weather-request"),
                                           Ev("end", "handle-weather-request")>>)
                         /\ UNCHANGED calls
                    ELSE /\ b' = [b EXCEPT ![r] = [got EXCEPT !.pc = "weather"]]
                         /\ spans' = [spans EXCEPT ![r] = sp2]
                         /\ trail' = Log(r, "service-b", ev1 \o
                                         <<Ev("start", "fetch-weather-info")>>)
                         /\ calls' = [calls EXCEPT ![r] =
                                        Do(@, "weatherapi", Inject(trace))]
    /\ UNCHANGED <<cep, resA, resB, env, a, proc>>

\* the weather call resolves to o: the rest of fetchWeatherInfo, then
\* handleWeather to its end
WeatherReturns(r, o) ==
    /\ proc["service-b"].pc = "serving"
    /\ b[r].pc = "weather"
    /\ LET weatherInfo == fetchWeatherInfo(o)
           sp == EndSpan(IF weatherInfo.recorded
                         THEN RecordError(spans[r], "fetch-weather-info")
                         ELSE spans[r],
                         "fetch-weather-info")
           got == [b[r] EXCEPT !.weather = o]
           ev == (IF weatherInfo.recorded
                  THEN <<Ev("error", "fetch-weather-info")>>
                  ELSE <<>>) \o <<Ev("end", "fetch-weather-info")>>
       IN  IF weatherInfo.err
           THEN /\ Respond(r, RecordError(sp, "handle-weather-request"), 500,
                           ErrorResponse("failed to fetch weather information"),
                           got)
                /\ trail' = Log(r, "service-b", ev \o
                                <<Ev("error", "handle-weather-request"),
                                  Ev("respond", "handle-weather-request"),
                                  Ev("end", "handle-weather-request")>>)
           ELSE /\ RespondWeather(r, sp, fetchCEPInfo(b[r].lookup).Localidade,
                                  weatherInfo.TempC, got)
                /\ trail' = Log(r, "service-b", ev \o
                                <<Ev("respond", "handle-weather-request"),
                                  Ev("end", "handle-weather-request")>>)
    /\ UNCHANGED <<cep, resA, resB, env, a, calls, proc>>

(***************************************************************************)
(* Validator harness: validateCEP on its own                               *)
(***************************************************************************)
\* the two ASCII digits the harness uses
HarnessDigits == {Byte0, Byte9}
\* non-digits: '/' and ':' (the neighbours of '0' and '9'), '-', '+', ' ',
\* newline, 'a', and the first byte of a UTF-8 encoded Arabic-Indic digit
HarnessOthers == {Byte0 - 1, Byte9 + 1, 45, 43, 32, 10, 97, 217}

\* every string of at most MaxLen bytes made of digits and at most one non-digit
InitValidate ==
    /\ \E n \in 0..MaxLen :
         \E d \in [1..n -> HarnessDigits], k \in 0..n, o \in HarnessOthers :
            cep = [i \in 1..n |-> IF i = k THEN o ELSE d[i]]
    /\ resA = <<>>
    /\ resB = <<>>
    /\ env = [WEATHER_API_KEY |-> "", SERVICE_B_URL |-> ""]
    /\ InitPipeline
    /\ InitServing

\* service-a calls validateCEP(cep)
CallValidateA ==
    /\ resA = <<>>
    /\ resA' = <<validateCEP(cep)>>
    /\ UNCHANGED <<cep, resB, env, a, b, spans, calls, trail, proc>>

\* service-b calls validateCEP(cep)
CallValidateB ==
    /\ resB = <<>>
    /\ resB' = <<validateCEP_B(cep)>>
    /\ UNCHANGED <<cep, resA, env, a, b, spans, calls, trail, proc>>

NextValidate == CallValidateA \/ CallValidateB

SpecValidate == InitValidate /\ [][NextValidate]_vars

(***************************************************************************)
(* Specifications of the pipeline                                          *)
(***************************************************************************)
\* callers that send no traceparent header, every body, every outcome of the
\* collaborators
Next ==
    \/ \E r \in Requests, body \in Bodies : HandleCEP(r, body, NoTrace)
    \/ \E r \in Requests : ForwardFails(r)
    \/ \E r \in Requests : ForwardReturns(r)
    \/ \E r \in Requests : HandleWeatherForwarded(r)
    \/ \E r \in Requests, body \in Bodies : HandleWeatherDirect(r, body, NoTrace)
    \/ \E r \in Requests, o \in LookupOutcomes : LookupReturns(r, o)
    \/ \E r \in Requests, o \in WeatherOutcomes : WeatherReturns(r, o)

Spec == Init /\ [][Next]_vars

\* callers that may send a traceparent header; one rejected and one accepted
\* body, one failing and one successful outcome of each collaborator
TraceBodies == {Body(TRUE, "absent", <<>>), Body(TRUE, "string", CepSaoPaulo)}
TraceLookupOutcomes ==
    {o \in LookupOutcomes : o.kind = "decoded" /\ (o.erro \/ o.localidade # "")}
TraceWeatherOutcomes ==
    {o \in WeatherOutcomes : o.kind = "transport" \/ (o.status = 200 /\ o.decodable)}

NextTrace ==
    \/ \E r \in Requests, body \in TraceBodies, tp \in CallerTraces \cup {NoTrace} :
          HandleCEP(r, body, tp)
    \/ \E r \in Requests : ForwardFails(r)
    \/ \E r \in Requests : ForwardReturns(r)
    \/ \E r \in Requests : HandleWeatherForwarded(r)
    \/ \E r \in Requests, body \in TraceBodies, tp \in CallerTraces \cup {NoTrace} :
          HandleWeatherDirect(r, body, tp)
    \/ \E r \in Requests, o \in TraceLookupOutcomes : LookupReturns(r, o)
    \/ \E r \in Requests, o \in TraceWeatherOutcomes : WeatherReturns(r, o)

SpecTrace == Init /\ [][NextTrace]_vars

\* callers that send no traceparent header and one body for each way out of a
\* handler's entry (the body does not bind, the validator rejects it, it is
\* accepted); every outcome of the collaborators
SpanBodies ==
    { Body(FALSE, "absent", <<>>),
      Body(TRUE, "string", <<97, 98, 99, 100, 49, 50, 51, 52>>),
      Body(TRUE, "string", CepSaoPaulo) }

NextSpans ==
    \/ \E r \in Requests, body \in SpanBodies : HandleCEP(r, body, NoTrace)
    \/ \E r \in Requests : ForwardFails(r)
    \/ \E r \in Requests : ForwardReturns(r)
    \/ \E r \in Requests : HandleWeatherForwarded(r)
    \/ \E r \in Requests, body \in SpanBodies : HandleWeatherDirect(r, body, NoTrace)
    \/ \E r \in Requests, o \in LookupOutcomes : LookupReturns(r, o)
    \/ \E r \in Requests, o \in WeatherOutcomes : WeatherReturns(r, o)

SpecSpans == Init /\ [][NextSpans]_vars

(***************************************************************************)
(* The service processes: main                                             *)
(***************************************************************************)
\* main from its first line to r.Run: initTracer creates the exporter (a
\* failure there is fatal), installs the tracer provider and returns the
\* shutdown closure, which main defers
Main(svc, exporterOk) ==
    /\ proc[svc].pc = "start"
    /\ proc' = [proc EXCEPT ![svc] =
                  IF exporterOk
                  THEN [@ EXCEPT !.pc = "serving", !.inits = @ + 1,
                                 !.deferred = <<"shutdown">> \o @]
                  ELSE Fatal(@)]
    /\ UNCHANGED <<cep, resA, resB, env, a, b, spans, calls, trail>>

\* r.Run returns (it only ever returns an error: the listener could not be
\* opened, or failed while serving), and main hands the error to log.Fatal
RunReturns(svc) ==
    /\ proc[svc].pc = "serving"
    /\ proc' = [proc EXCEPT ![svc] = Fatal(@)]
    /\ UNCHANGED <<cep, resA, resB, env, a, b, spans, calls, trail>>

\* both processes from their start; requests as in SpecTrace, from callers
\* that send no traceparent header
InitProcess ==
    /\ cep = <<>>
    /\ resA = <<>>
    /\ resB = <<>>
    /\ env \in [WEATHER_API_KEY : ApiKeys, SERVICE_B_URL : ServiceBURLs]
    /\ InitPipeline
    /\ proc = [svc \in Services |-> Started]

NextProcess ==
    \/ \E svc \in Services, exporterOk \in BOOLEAN : Main(svc, exporterOk)
    \/ \E svc \in Services : RunReturns(svc)
    \/ \E r \in Requests, body \in TraceBodies : HandleCEP(r, body, NoTrace)
    \/ \E r \in Requests : ForwardFails(r)
    \/ \E r \in Requests : ForwardReturns(r)
    \/ \E r \in Requests : HandleWeatherForwarded(r)
    \/ \E r \in Requests, body \in TraceBodies : HandleWeatherDirect(r, body, NoTrace)
    \/ \E r \in Requests, o \in TraceLookupOutcomes : LookupReturns(r, o)
    \/ \E r \in Requests, o \in TraceWeatherOutcomes : WeatherReturns(r, o)

SpecProcess == InitProcess /\ [][NextProcess]_vars

(***************************************************************************)
(* Properties                                                              *)
(***************************************************************************)
\* exactly 8 bytes, each an ASCII decimal digit
EightDigits(s) == Len(s) = 8 /\ \A i \in 1..Len(s) : s[i] \in 48..57

\* a body that does not decode, or whose postal code is not 8 digits
Rejected(body) ==
    \/ ~body.wellformed
    \/ body.field # "string"
    \/ body.str = <<>>
    \/ ~EightDigits(body.str)

\* the text {"message":"m"}
Message(m) == <<P("{"), S("message"), P(":"), S(m), P("}")>>

\* C1: validateCEP, in both services, returns valid exactly for the strings
\* of 8 ASCII digits, returns a result for every string, and the two copies
\* agree.
C1_ValidatorContract ==
    /\ resA # <<>> => resA = <<EightDigits(cep)>>
    /\ resB # <<>> => resB = <<EightDigits(cep)>>
    /\ (resA # <<>> /\ resB # <<>>) => resA = resB
    /\ resA = <<>> => ENABLED CallValidateA
    /\ resB = <<>> => ENABLED CallValidateB

C1_Witness ==
    /\ Len(cep) = 8
    /\ resA = <<TRUE>>
    /\ resB = <<TRUE>>

\* C2: a request to handleCEP whose body does not decode or whose postal code
\* the validator rejects is answered 422 "invalid zipcode", and no call to the
\* Orchestrator is made for it.
C2_EdgeRejects ==
    \A r \in Requests :
        (a[r].pc # "idle" /\ Rejected(a[r].body)) =>
            /\ a[r].pc = "done"
            /\ a[r].status = 422
            /\ a[r].out = Message("invalid zipcode")
            /\ calls[r]["service-b"] = <<>>
            /\ b[r].pc = "idle"

C2_Witness ==
    \E r \in Requests :
        /\ a[r].pc = "done"
        /\ a[r].body.field = "string"
        /\ Len(a[r].body.str) = 8
        /\ Rejected(a[r].body)
        /\ a[r].status = 422

\* the postal lookup failed in transport, could not be decoded, or reported
\* not found
LookupFailed(o) ==
    \/ o.kind = "transport"
    \/ o.kind = "undecodable"
    \/ (o.kind = "decoded" /\ o.erro)

\* C3: when the postal lookup fails, handleWeather answers 404 "can not find
\* zipcode", never enters fetchWeatherInfo and returns no WeatherResult.
C3_LookupFailure ==
    \A r \in Requests :
        LookupFailed(b[r].lookup) =>
            /\ b[r].pc = "done"
            /\ b[r].status = 404
            /\ b[r].out = Message("can not find zipcode")
            /\ spans[r]["fetch-weather-info"].started = 0
            /\ calls[r]["weatherapi"] = <<>>

C3_Witness ==
    \E r \in Requests :
        /\ b[r].lookup.kind = "decoded"
        /\ b[r].lookup.erro
        /\ b[r].status = 404

\* C4: without a usable WEATHER_API_KEY (unset, empty, "demo_key") no weather
\* call is made, and a request whose lookup succeeded is answered 200 with
\* temp_C 22.5, temp_F 72.5, temp_K 295.5.
C4_NoCredentialFallback ==
    env.WEATHER_API_KEY \in {"", "demo_key"} =>
        \A r \in Requests :
            /\ calls[r]["weatherapi"] = <<>>
            /\ (b[r].lookup.kind = "decoded" /\ ~b[r].lookup.erro) =>
                  /\ b[r].pc = "done"
                  /\ b[r].status = 200
                  /\ b[r].out = <<P("{"), S("city"), P(":"), S(b[r].lookup.localidade),
                                  P(","), S("temp_C"), P(":"), N(2250),
                                  P(","), S("temp_F"), P(":"), N(7250),
                                  P(","), S("temp_K"), P(":"), N(29550), P("}")>>

C4_Witness ==
    /\ env.WEATHER_API_KEY = "demo_key"
    /\ \E r \in Requests :
          /\ b[r].status = 200
          /\ spans[r]["fetch-weather-info"].ended = 1

\* C5: every 200 answer of the Orchestrator has temp_F = temp_C*1.8 + 32 and
\* temp_K = temp_C + 273, and its city is the locality the lookup of the same
\* request returned.
C5_ConsistentResult ==
    \A r \in Requests :
        b[r].status = 200 =>
            LET v == Decode(b[r].out).v
            IN  /\ DOMAIN v = {"city", "temp_C", "temp_F", "temp_K"}
                /\ v["temp_F"].n * 10 = v["temp_C"].n * 18 + 32000
                /\ v["temp_K"].n = v["temp_C"].n + 27300
                /\ v["city"] = S(b[r].lookup.localidade)

C5_Witness ==
    \E r \in Requests :
        /\ b[r].status = 200
        /\ b[r].weather.kind = "response"
        /\ Decode(b[r].out).v["temp_C"].n = b[r].weather.temp_c
        /\ b[r].weather.temp_c < 0

C7_ForwardFailure ==
    \A r \in Requests :
        a[r].fwdErr =>
            /\ a[r].pc = "done"
            /\ a[r].status = 500
            /\ a[r].out = Message("internal server error")
            /\ Len(calls[r]["service-b"]) = 1
            /\ a[r].up = NoResponse

C7_Witness ==
    \E r \in Requests :
        /\ a[r].fwdErr
        /\ a[r].status = 500

\* C8: handleWeather validates on its own: a request whose body does not
\* decode or whose postal code is invalid is answered 422 "invalid zipcode"
\* and neither collaborator is called.
C8_OrchestratorRejects ==
    \A r \in Requests :
        (b[r].pc # "idle" /\ Rejected(b[r].body)) =>
            /\ b[r].pc = "done"
            /\ b[r].status = 422
            /\ b[r].out = Message("invalid zipcode")
            /\ calls[r]["viacep"] = <<>>
            /\ calls[r]["weatherapi"] = <<>>

C8_Witness ==
    \E r \in Requests :
        /\ b[r].origin = "direct"
        /\ b[r].body.field = "string"
        /\ Len(b[r].body.str) = 8
        /\ Rejected(b[r].body)
        /\ b[r].status = 422

\* the weather call failed in transport, returned a non-success status, or
\* returned a body that cannot be decoded
WeatherFailed(o) ==
    \/ o.kind = "transport"
    \/ (o.kind = "response" /\ (o.status \notin 200..299 \/ ~o.decodable))

\* C9: with a usable credential, a failed weather call is answered 500
\* "failed to fetch weather information" after a single attempt, with no
\* WeatherResult and no fallback value.
C9_WeatherFailure ==
    \A r \in Requests :
        WeatherFailed(b[r].weather) =>
            /\ b[r].pc = "done"
            /\ b[r].status = 500
            /\ b[r].out = Message("failed to fetch weather information")
            /\ Len(calls[r]["weatherapi"]) = 1

C9_Witness ==
    \E r \in Requests :
        /\ env.WEATHER_API_KEY \notin {"", "demo_key"}
        /\ b[r].weather.kind = "response"
        /\ b[r].weather.status = 401
        /\ b[r].status = 500

\* request r has reached one of the two services
Arrived(r) == a[r].pc # "idle" \/ b[r].pc # "idle"
\* the traceparent request r arrived with, and the trace of its first span
InboundTrace(r) == IF a[r].pc # "idle" THEN a[r].tp ELSE b[r].tp
RequestTrace(r) == IF a[r].pc # "idle" THEN a[r].trace ELSE b[r].trace

\* every span and every outbound call of one request, in both services,
\* carries the trace of the inbound request
OneTracePerRequest ==
    \A r \in Requests :
        /\ InboundTrace(r) # NoTrace => RequestTrace(r) = InboundTrace(r)
        /\ \A n \in SpanNames :
              spans[r][n].started > 0 => spans[r][n].trace = RequestTrace(r)
        /\ \A t \in Targets : \A i \in 1..Len(calls[r][t]) :
              calls[r][t][i] = RequestTrace(r)

\* C10 as stated: one trace per logical request, and two different requests
\* never share a trace identifier.
C10_TracePerRequestDisjoint ==
    /\ OneTracePerRequest
    /\ \A r1, r2 \in Requests :
          (r1 # r2 /\ Arrived(r1) /\ Arrived(r2)) =>
              RequestTrace(r1) # RequestTrace(r2)

\* C10 amended: one trace per logical request, and two different requests
\* share a trace identifier only when both arrived carrying it in their
\* inbound trace context.
C10_TracePerRequest ==
    /\ OneTracePerRequest
    /\ \A r1, r2 \in Requests :
          (r1 # r2 /\ Arrived(r1) /\ Arrived(r2)
                   /\ RequestTrace(r1) = RequestTrace(r2)) =>
              /\ InboundTrace(r1) = RequestTrace(r1)
              /\ InboundTrace(r2) = RequestTrace(r2)

C10_Witness ==
    \E r1, r2 \in Requests :
        /\ r1 # r2
        /\ a[r1].pc = "done"
        /\ spans[r1]["handle-weather-request"].started = 1
        /\ Len(calls[r1]["weatherapi"]) = 1
        /\ Arrived(r2)
        /\ RequestTrace(r1) # RequestTrace(r2)

\* C11: whenever the pipeline is in the weather stage or has answered 200, the
\* locality name the postal lookup returned is not empty.
C11_NonEmptyLocality ==
    \A r \in Requests :
        (spans[r]["fetch-weather-info"].started > 0 \/ b[r].status = 200) =>
            /\ b[r].lookup.kind = "decoded"
            /\ b[r].lookup.localidade # ""

\* handleCEP returned through one of its own error exits: the body did not
\* bind, the validator rejected it, the forwarding call failed, or the
\* response of the forwarding call did not decode
ErrorExitA(r) ==
    /\ a[r].pc = "done"
    /\ \/ Rejected(a[r].body)
       \/ a[r].fwdErr
       \/ (a[r].up # NoResponse /\ Decode(a[r].up.body).err)

\* handleWeather returned through one of its error exits: the body did not
\* bind, the validator rejected it, the lookup failed, the weather call failed
ErrorExitB(r) ==
    /\ b[r].pc = "done"
    /\ \/ Rejected(b[r].body)
       \/ LookupFailed(b[r].lookup)
       \/ WeatherFailed(b[r].weather)

\* in the steps t of a handler, an error was recorded on span h before the
\* handler wrote its answer
RecordedBeforeResponse(t, h) ==
    \E i \in 1..Len(t), j \in 1..Len(t) :
        /\ i < j
        /\ t[i] = Ev("error", h)
        /\ t[j] = Ev("respond", h)

\* C12: on every error exit of handleCEP and of handleWeather the error is
\* recorded on the handler's span before the error response is written.
C12_ErrorRecordedBeforeResponse ==
    \A r \in Requests :
        /\ ErrorExitA(r) =>
              /\ spans[r]["handle-cep-request"].errors >= 1
              /\ RecordedBeforeResponse(trail[r]["service-a"], "handle-cep-request")
        /\ ErrorExitB(r) =>
              /\ spans[r]["handle-weather-request"].errors >= 1
              /\ RecordedBeforeResponse(trail[r]["service-b"],
                                        "handle-weather-request")

\* the spans each handler starts: the request span first, then its children
HandlerSpan(svc) ==
    IF svc = "service-a" THEN "handle-cep-request" ELSE "handle-weather-request"
ChildSpans(svc) ==
    IF svc = "service-a" THEN {"forward-to-service-b"}
    ELSE {"fetch-cep-info", "fetch-weather-info"}
\* the handler of svc has returned for request r
Returned(r, svc) == IF svc = "service-a" THEN a[r].pc = "done" ELSE b[r].pc = "done"

\* the positions of step ev in the steps t
Pos(t, ev) == {i \in 1..Len(t) : t[i] = ev}

\* C13: every span started while handling a request is ended exactly once by
\* the time its handler returns, on every path (success, every error exit, the
\* no-credential fallback), never ended before it is started or more often than
\* it is started, and each child span is ended before its request span.
C13_SpansEndedOnce ==
    \A r \in Requests, svc \in Services :
        LET t == trail[r][svc]
            h == HandlerSpan(svc)
            hEnds == Pos(t, Ev("end", h))
        IN  /\ \A n \in ChildSpans(svc) \cup {h} :
                 LET starts == Pos(t, Ev("start", n))
                     ends == Pos(t, Ev("end", n))
                 IN  /\ spans[r][n].started <= 1
                     /\ spans[r][n].ended <= spans[r][n].started
                     /\ Cardinality(starts) = spans[r][n].started
                     /\ Cardinality(ends) = spans[r][n].ended
                     /\ \A i \in starts, j \in ends : i < j
                     /\ n # h => \A i \in ends, j \in hEnds : i < j
                     /\ Returned(r, svc) =>
                           spans[r][n].ended = spans[r][n].started
            /\ Returned(r, svc) =>
                 /\ spans[r][h].started = 1
                 /\ t[Len(t)] = Ev("end", h)

\* a request went through both services and took the no-credential fallback:
\* all five spans were started and ended, fetch-weather-info without a call
C13_Witness ==
    \E r \in Requests :
        /\ a[r].pc = "done"
        /\ a[r].status = 200
        /\ b[r].pc = "done"
        /\ b[r].weather = NoWeather
        /\ calls[r]["weatherapi"] = <<>>
        /\ \A n \in SpanNames : spans[r][n].started = 1 /\ spans[r][n].ended = 1

\* the handler of svc has been entered for some request
HandledAny(svc) ==
    \E r \in Requests :
        IF svc = "service-a" THEN a[r].pc # "idle" ELSE b[r].pc # "idle"

\* C14: in each service process the tracer is initialized once, before any
\* request is handled, and once the process has stopped serving (r.Run has
\* returned and the process has exited) the teardown that initTracer returned
\* has been executed.
C14_TracerLifecycle ==
    \A svc \in Services :
        /\ proc[svc].inits <= 1
        /\ HandledAny(svc) => proc[svc].inits = 1
        /\ (proc[svc].pc = "exited" /\ proc[svc].inits = 1) =>
              /\ proc[svc].teardowns = 1
              /\ proc[svc].deferred = <<>>

====
